---- MODULE Spec2Model ----
(***************************************************************************)
(* Model of the spending planner: the Postgres store behind the server     *)
(* functions of src/src/features/spending.ts (schema in src/unnamed/       *)
(* part_000), the React client of src/unnamed/part_001 and its spendingData*)
(* computation.                                                            *)
(*                                                                         *)
(* Representation choices                                                  *)
(*   - a text (an input's value, a numeric or a date on the wire) is a     *)
(*     sequence of one-character strings: <<"2", ".", "5">> is "2.5";      *)
(*   - a JS number is an exact rational [n, d] with d > 0, and NaN is      *)
(*     [n |-> 0, d |-> 0]: double rounding is not modelled;                *)
(*   - a numeric(12,2) column holds an integer number of hundredths;       *)
(*   - a date key "YYYY-MM-DD" is the tuple <<year, month1, day>> with     *)
(*     month1 1-based, as formatDateKey writes it; plans keep the 0-based  *)
(*     month;                                                              *)
(*   - new Date() / defaultNow() read the logical clock `clock`.           *)
(***************************************************************************)
EXTENDS Integers, Sequences, FiniteSets, TLC

\* ------------------------------------------------------------------ bounds

\* Server-function calls issued in one behaviour.
MaxCalls == 3

\* ------------------------------------------------------------- rationals

\* The element of a one-element set. The({e(x) : x \in {a}}) is e(a) with a
\* evaluated once, before e: TLC otherwise evaluates an operator's argument
\* again at each of its uses. (The functions below are strict in the same
\* way: TLC evaluates f[x]'s argument first.)
The(S) == CHOOSE r \in S : TRUE

Abs(x) == IF x < 0 THEN -x ELSE x

Gcd[a \in Nat, b \in Nat] == IF b = 0 THEN a ELSE Gcd[b, a % b]

NaN == [n |-> 0, d |-> 0]

IsNaN(q) == q.d = 0

Fractions == [n : Int, d : Int]

\* n / d in lowest terms with a positive denominator (d # 0).
Reduced[n \in Int, d \in Int] ==
    LET g == Gcd[Abs(n), Abs(d)]
        s == IF d < 0 THEN -1 ELSE 1
    IN  [n |-> s * (n \div g), d |-> s * (d \div g)]

Rat(n, d) == Reduced[n, d]

Int2Rat(k) == [n |-> k, d |-> 1]

Zero == Int2Rat(0)

Sum[p \in Fractions, q \in Fractions] ==
    Reduced[p.n * q.d + q.n * p.d, p.d * q.d]

Difference[p \in Fractions, q \in Fractions] ==
    Reduced[p.n * q.d - q.n * p.d, p.d * q.d]

Product[p \in Fractions, q \in Fractions] == Reduced[p.n * q.n, p.d * q.d]

Quotient[p \in Fractions, q \in Fractions] == Reduced[p.n * q.d, p.d * q.n]

\* The arithmetic of JS numbers, without rounding: p + q, p - q, p * q and,
\* for q # 0, p / q.
RAdd(p, q) == Sum[p, q]

RSub(p, q) == Difference[p, q]

RMul(p, q) == Product[p, q]

RDiv(p, q) == Quotient[p, q]

RLess(p, q) == The({a.n * b.d < b.n * a.d : a \in {p}, b \in {q}})

RNeg(p) == p.n < 0

\* ------------------------------------------------------------------ texts

Digits == <<"0", "1", "2", "3", "4", "5", "6", "7", "8", "9">>

IsDigit(ch) == \E k \in 1..10 : Digits[k] = ch

DigitVal(ch) == (CHOOSE k \in 1..10 : Digits[k] = ch) - 1

RECURSIVE Pow10(_)
Pow10(k) == IF k = 0 THEN 1 ELSE 10 * Pow10(k - 1)

\* The index after the run of digits of t that starts at index i.
RECURSIVE DigitsEnd(_, _)
DigitsEnd(t, i) ==
    IF i <= Len(t) /\ IsDigit(t[i]) THEN DigitsEnd(t, i + 1) ELSE i

\* The value of the digits t[i], ..., t[j - 1].
RECURSIVE DigitsVal(_, _, _)
DigitsVal(t, i, j) ==
    IF i >= j THEN 0 ELSE DigitsVal(t, i, j - 1) * 10 + DigitVal(t[j - 1])

\* The decimal literal at the head of t: sign, integer digits, and the
\* fraction digits after a ".". `stop` is the index after the literal.
ScanDecimal(t) ==
    LET signed == Len(t) >= 1 /\ t[1] \in {"-", "+"}
        i0     == IF signed THEN 2 ELSE 1
        i1     == DigitsEnd(t, i0)
        dot    == i1 <= Len(t) /\ t[i1] = "."
        f0     == i1 + 1
        f1     == IF dot THEN DigitsEnd(t, f0) ELSE i1
        nf     == IF dot THEN f1 - f0 ELSE 0
    IN  [neg    |-> signed /\ t[1] = "-",
         nInt   |-> i1 - i0,
         nFrac  |-> nf,
         \* the digits of both parts read as one integer, scaled by 10^nFrac
         scaled |-> DigitsVal(t, i0, i1) * Pow10(nf)
                      + (IF dot THEN DigitsVal(t, f0, f1) ELSE 0),
         stop   |-> f1]

\* JS parseFloat: the longest decimal literal t starts with, NaN when t
\* starts with none. (Leading blanks and exponents are not in the alphabet.)
ParseFloat(t) ==
    LET s == ScanDecimal(t)
    IN  IF s.nInt + s.nFrac = 0 THEN NaN
        ELSE Rat((IF s.neg THEN -1 ELSE 1) * s.scaled, Pow10(s.nFrac))

\* `x || 0` on a number: NaN and 0 are falsy.
OrZero(q) == IF IsNaN(q) \/ q.n = 0 THEN Zero ELSE q

\* `s || alt` on a string: only the empty string is falsy.
OrText(s, alt) == IF s = <<>> THEN alt ELSE s

\* Postgres input of a numeric(12,2): the whole text must be a decimal
\* literal; the value is rounded to two decimals, half away from zero.
ToNumeric(t) ==
    LET s   == ScanDecimal(t)
        p   == Pow10(s.nFrac)
        mag == (2 * s.scaled * 100 + p) \div (2 * p)
    IN  IF s.nInt + s.nFrac = 0 \/ s.stop # Len(t) + 1
        THEN [ok |-> FALSE, cents |-> 0]
        ELSE [ok |-> TRUE, cents |-> IF s.neg THEN -mag ELSE mag]

RECURSIVE NatText(_)
NatText(k) ==
    IF k < 10 THEN <<Digits[k + 1]>>
    ELSE Append(NatText(k \div 10), Digits[(k % 10) + 1])

\* Postgres output of a numeric(12,2), which drizzle hands over as a string.
NumericText(cents) ==
    LET a == Abs(cents)
    IN  (IF cents < 0 THEN <<"-">> ELSE <<>>)
        \o NatText(a \div 100)
        \o <<".", Digits[((a % 100) \div 10) + 1], Digits[(a % 10) + 1]>>

\* --------------------------------------------------------------- calendar

IsLeapYear(year) ==
    (year % 4 = 0 /\ year % 100 # 0) \/ year % 400 = 0

\* new Date(year, month + 1, 0).getDate() for a 0-based month in 0..11.
GetDaysInMonth(year, month) ==
    IF month = 1 THEN (IF IsLeapYear(year) THEN 29 ELSE 28)
    ELSE IF month \in {3, 5, 8, 10} THEN 30
    ELSE 31

\* `${year}-${month + 1}-${day}`, zero-padded: the key's month is 1-based.
FormatDateKey(year, month, day) == <<year, month + 1, day>>

\* a < b on dates <<year, 0-based month, day>> normalised to midnight.
DateLess(a, b) ==
    \/ a[1] < b[1]
    \/ a[1] = b[1] /\ a[2] < b[2]
    \/ a[1] = b[1] /\ a[2] = b[2] /\ a[3] < b[3]

\* ----------------------------------------------------------- spendingData

\* A variant that never goes below zero.
AvailableMoneyClamped(totalAmount, desiredSaving) ==
    IF RLess(totalAmount, desiredSaving) THEN Zero
    ELSE RSub(totalAmount, desiredSaving)

\* const availableMoney = totalAmount - desiredSaving
AvailableMoney(totalAmount, desiredSaving) == RSub(totalAmount, desiredSaving)

\* A variant that counts today as past.
IsPastOrToday(date, now) == ~DateLess(now, date)

\* const isPast = date < today
IsPast(date, today) == DateLess(date, today)

\* A variant in which a fetched entry wins over the local input.
SpentMapPrefersEntries(entries, inputs) ==
    [k \in {e.date : e \in entries} \cup DOMAIN inputs |->
        IF k \in {e.date : e \in entries}
        THEN OrZero(ParseFloat((CHOOSE e \in entries : e.date = k).spent))
        ELSE OrZero(ParseFloat(inputs[k]))]

\* spentMap: the fetched entries, overridden by the local inputs.
\* `entries` is dailyQuery.data (a set of rows; {} when undefined) and
\* `inputs` is spentInputs (a function from date keys to texts).
SpentMap(entries, inputs) ==
    [k \in {e.date : e \in entries} \cup DOMAIN inputs |->
        IF k \in DOMAIN inputs
        THEN OrZero(ParseFloat(inputs[k]))
        ELSE OrZero(ParseFloat((CHOOSE e \in entries : e.date = k).spent))]

\* const spent = spentMap[dateKey] ?? 0
SpentOn(spentMap, dateKey) ==
    IF dateKey \in DOMAIN spentMap THEN spentMap[dateKey] ELSE Zero

\* A variant that leaves what was spent out of the rollover.
RolloverAfterIgnoresSpent(rollover, isPast, availableMoney, daysCount, spent) ==
    IF isPast
    THEN RAdd(rollover, RDiv(availableMoney, Int2Rat(daysCount)))
    ELSE rollover

\* A variant that accumulates over every day, past or not.
RolloverAfterEveryDay(rollover, isPast, availableMoney, daysCount, spent) ==
    RAdd(rollover, RSub(RDiv(availableMoney, Int2Rat(daysCount)), spent))

\* rollover += baseDailyAllowance - spent, for a past day only
RolloverAfter(rollover, isPast, availableMoney, daysCount, spent) ==
    IF isPast
    THEN RAdd(rollover, RSub(RDiv(availableMoney, Int2Rat(daysCount)), spent))
    ELSE rollover

\* Variants: one redistributes past days too, one ignores the rollover.
AllowedSpendingRedistributed(isPast, availableMoney, daysCount, day, rollover) ==
    RDiv(RAdd(RMul(RDiv(availableMoney, Int2Rat(daysCount)),
                   Int2Rat(daysCount - day + 1)),
              rollover),
         Int2Rat(daysCount - day + 1))

AllowedSpendingNoRollover(isPast, availableMoney, daysCount, day, rollover) ==
    RDiv(availableMoney, Int2Rat(daysCount))

\* allowedSpending of one day, given the rollover after this day's update
AllowedSpending(isPast, availableMoney, daysCount, day, rollover) ==
    IF isPast
    THEN RDiv(availableMoney, Int2Rat(daysCount))
    ELSE LET daysFromHere    == daysCount - day + 1
             remainingBudget ==
                 RAdd(RMul(RDiv(availableMoney, Int2Rat(daysCount)),
                           Int2Rat(daysCount - day + 1)),
                      rollover)
         IN  RDiv(remainingBudget, Int2Rat(daysFromHere))

\* One turn of the loop: the next day, the rollover after `day`, and `days`
\* with this day's entry.
DayStep(day, rollover, days, in) ==
    LET date    == <<in.year, in.month, day>>
        dateKey == FormatDateKey(in.year, in.month, day)
        isPast  == IsPast(date, in.today)
        isToday == date = in.today
    IN  The({[day |-> day + 1, rollover |-> rolled,
              days |-> Append(days,
                  [day |-> day, dateKey |-> dateKey,
                   allowedSpending |->
                       AllowedSpending(isPast, in.availableMoney,
                                       in.daysCount, day, rolled),
                   spent |-> spent, isPast |-> isPast,
                   isToday |-> isToday])]
             : spent \in {SpentOn(in.spentMap, dateKey)},
               rolled \in {RolloverAfter(rollover, isPast, in.availableMoney,
                                         in.daysCount,
                                         SpentOn(in.spentMap, dateKey))}})

\* for (let day = 1; day <= daysCount; day++) { ... days.push(...) }
RECURSIVE DaysLoop(_, _, _, _)
DaysLoop(day, rollover, days, in) ==
    IF day > in.daysCount
    THEN [days |-> days, rollover |-> rollover]
    ELSE The({DaysLoop(step.day, step.rollover, step.days, ctx)
              : ctx \in {in}, step \in {DayStep(day, rollover, days, in)}})

\* The useMemo body: what spendingData is for the given dependencies.
ComputeSpendingData(year, month, total, saving, entries, inputs, now) ==
    LET daysCount     == GetDaysInMonth(year, month)
        totalAmount   == OrZero(ParseFloat(total))
        desiredSaving == OrZero(ParseFloat(saving))
    IN  The({The({[days |-> loop.days,
                   totalAmount |-> totalAmount,
                   desiredSaving |-> desiredSaving,
                   availableMoney |-> availableMoney,
                   baseDailyAllowance |->
                       RDiv(availableMoney, Int2Rat(daysCount)),
                   rollover |-> loop.rollover]
                  : loop \in {DaysLoop(1, Zero, <<>>,
                                       [year |-> year, month |-> month,
                                        daysCount |-> daysCount,
                                        availableMoney |-> availableMoney,
                                        spentMap |-> spentMap,
                                        today |-> now])}})
             : availableMoney \in {AvailableMoney(totalAmount, desiredSaving)},
               spentMap \in {SpentMap(entries, inputs)}})

\* ------------------------------------------------------------------ store

VARIABLES
    plans,      \* rows of spending_plans
    daily,      \* rows of daily_spending
    planSeq,    \* next value of spending_plans.id (serial)
    dailySeq,   \* next value of daily_spending.id (serial)
    clock,      \* the time new Date() and defaultNow() read
    calls       \* the server-function calls issued so far, in order of issue

\* The page (SpendingPlanApp) and its query cache.
VARIABLES
    selectedMonth,  \* <<year, 0-based month>>
    totalInput,     \* text
    savingInput,    \* text
    spentInputs,    \* date key -> text, the local edits
    planCache,      \* <<year, month>> -> data of ['spending-plan', year, month]
    dailyCache,     \* plan id -> data of ['daily-spending', planId]
    today           \* <<year, 0-based month, day>>, new Date() at midnight

storeVars == <<plans, daily, planSeq, dailySeq, clock>>

pageVars ==
    <<selectedMonth, totalInput, savingInput, spentInputs, planCache,
      dailyCache, today>>

\* findFirst found nothing (undefined); also a call that has no row yet.
NoRow == [id |-> 0]

NoArgs ==
    [year |-> 0, month |-> 0, planId |-> 0, date |-> <<0, 0, 0>>,
     totalAmount |-> <<>>, desiredSaving |-> <<>>, spent |-> <<>>]

NoSnap == [plans |-> {}, daily |-> {}]

\* A call leaving the client: its arguments are fixed, nothing has run yet.
\* `origin` is who issued it ("api": some caller of the server function;
\* "planQuery", "dailyQuery", "updatePlanMutation", "updateDailyMutation": the
\* page), `view`
\* the month the page showed then, `outcome` what the page has seen of it.
NewCall(op, args, origin, view) ==
    [op |-> op, pc |-> "sent", args |-> args, existing |-> NoRow,
     ret |-> NoRow, rows |-> {}, error |-> "", readClock |-> 0, writeClock |-> 0,
     isolated |-> FALSE, after |-> NoSnap,
     origin |-> origin, view |-> view, outcome |-> ""]

CallIds == 1..Len(calls)

\* unique().on(table.year, table.month)
UniqueYearMonth(rows, year, month) ==
    ~\E r \in rows : r.year = year /\ r.month = month

\* A variant without the constraint on (plan_id, date).
UniquePlanDateOff(rows, planId, date) == TRUE

\* unique().on(table.planId, table.date)
UniquePlanDate(rows, planId, date) ==
    ~\E r \in rows : r.planId = planId /\ r.date = date

\* plan_id references spending_plans.id
PlanIdReferences(rows, planId) == \E r \in rows : r.id = planId

\* db.query.spendingPlans.findFirst({where: year = .. and month = ..})
FindPlan(rows, year, month) ==
    IF \E r \in rows : r.year = year /\ r.month = month
    THEN CHOOSE r \in rows : r.year = year /\ r.month = month
    ELSE NoRow

\* db.query.dailySpending.findFirst({where: planId = .. and date = ..})
FindDaily(rows, planId, date) ==
    IF \E r \in rows : r.planId = planId /\ r.date = date
    THEN CHOOSE r \in rows : r.planId = planId /\ r.date = date
    ELSE NoRow

\* A variant that starts a plan with a saving of 1.
NewPlanRowNonZero(id, year, month, now) ==
    [id |-> id, year |-> year, month |-> month,
     totalAmount |-> ToNumeric(<<"0">>).cents,
     desiredSaving |-> ToNumeric(<<"1">>).cents,
     createdAt |-> now, updatedAt |-> now]

\* The row getOrCreatePlan inserts: totalAmount '0', desiredSaving '0'.
NewPlanRow(id, year, month, now) ==
    [id |-> id, year |-> year, month |-> month,
     totalAmount |-> ToNumeric(<<"0">>).cents,
     desiredSaving |-> ToNumeric(<<"0">>).cents,
     createdAt |-> now, updatedAt |-> now]

\* The row upsertDailySpending inserts.
NewDailyRow(id, planId, date, cents, now) ==
    [id |-> id, planId |-> planId, date |-> date, spent |-> cents,
     createdAt |-> now, updatedAt |-> now]

\* update(spendingPlans).set({totalAmount, desiredSaving, updatedAt})
\*   .where(eq(spendingPlans.id, planId))
UpdatePlanRows(rows, planId, total, saving, now) ==
    {IF r.id = planId
     THEN [r EXCEPT !.totalAmount = total, !.desiredSaving = saving,
                    !.updatedAt = now]
     ELSE r : r \in rows}

\* A variant that sets createdAt as well.
UpdateDailyRowsSetsCreatedAt(rows, id, cents, now) ==
    {IF r.id = id
     THEN [r EXCEPT !.spent = cents, !.createdAt = now, !.updatedAt = now]
     ELSE r : r \in rows}

\* update(dailySpending).set({spent, updatedAt}).where(eq(dailySpending.id, id))
UpdateDailyRows(rows, id, cents, now) ==
    {IF r.id = id THEN [r EXCEPT !.spent = cents, !.updatedAt = now] ELSE r
     : r \in rows}

RowWithId(rows, id) ==
    IF \E r \in rows : r.id = id THEN CHOOSE r \in rows : r.id = id ELSE NoRow

\* The handler returns `ret`; `written` tells whether its statement wrote.
Finish(c, ret, written) ==
    [calls EXCEPT ![c].pc = "done", ![c].ret = ret,
                  ![c].writeClock = IF written THEN clock + 1 ELSE clock]

\* The handler throws the store's error.
Fail(c, error) ==
    [calls EXCEPT ![c].pc = "failed", ![c].error = error,
                  ![c].writeClock = clock]

\* ---- getOrCreatePlan

\* The await of findFirst resolves; a plan that was found is returned.
GetOrCreatePlanFind(c) ==
    /\ UNCHANGED pageVars
    /\ calls[c].op = "getOrCreatePlan" /\ calls[c].pc = "sent"
    /\ LET plan == FindPlan(plans, calls[c].args.year, calls[c].args.month)
       IN  calls' = IF plan = NoRow
                    THEN [calls EXCEPT ![c].pc = "insert",
                                       ![c].readClock = clock]
                    ELSE [Finish(c, plan, FALSE) EXCEPT
                                       ![c].existing = plan,
                                       ![c].readClock = clock]
    /\ UNCHANGED storeVars

\* insert(spendingPlans).values({year, month, '0', '0'}).returning()
GetOrCreatePlanInsert(c) ==
    /\ UNCHANGED pageVars
    /\ calls[c].op = "getOrCreatePlan" /\ calls[c].pc = "insert"
    /\ planSeq' = planSeq + 1
    /\ UNCHANGED <<daily, dailySeq>>
    /\ IF UniqueYearMonth(plans, calls[c].args.year, calls[c].args.month)
       THEN LET row == NewPlanRow(planSeq, calls[c].args.year,
                                  calls[c].args.month, clock + 1)
            IN  /\ plans' = plans \cup {row}
                /\ clock' = clock + 1
                /\ calls' = [Finish(c, row, TRUE) EXCEPT
                               ![c].isolated = (clock = calls[c].readClock)]
       ELSE /\ calls' = Fail(c, "unique")
            /\ UNCHANGED <<plans, clock>>

\* ---- updatePlanSettings

UpdatePlanSettingsUpdate(c) ==
    /\ UNCHANGED pageVars
    /\ calls[c].op = "updatePlanSettings" /\ calls[c].pc = "sent"
    /\ UNCHANGED <<daily, planSeq, dailySeq>>
    /\ LET total  == ToNumeric(calls[c].args.totalAmount)
           saving == ToNumeric(calls[c].args.desiredSaving)
       IN  IF total.ok /\ saving.ok
           THEN LET rows == UpdatePlanRows(plans, calls[c].args.planId,
                                           total.cents, saving.cents,
                                           clock + 1)
                IN  /\ plans' = rows
                    /\ clock' = IF rows = plans THEN clock ELSE clock + 1
                    /\ calls' = [Finish(c, RowWithId(rows,
                                                     calls[c].args.planId),
                                        rows # plans)
                                   EXCEPT ![c].readClock = clock,
                                          ![c].isolated = TRUE]
           ELSE /\ calls' = Fail(c, "syntax")
                /\ UNCHANGED <<plans, clock>>

\* ---- getDailySpending

\* select().from(dailySpending).where(eq(dailySpending.planId, planId))
GetDailySpendingSelect(c) ==
    /\ UNCHANGED pageVars
    /\ calls[c].op = "getDailySpending" /\ calls[c].pc = "sent"
    /\ calls' = [calls EXCEPT
                   ![c].pc = "done",
                   ![c].rows = {r \in daily : r.planId = calls[c].args.planId},
                   ![c].readClock = clock,
                   ![c].writeClock = clock]
    /\ UNCHANGED storeVars

\* ---- upsertDailySpending

UpsertDailySpendingFind(c) ==
    /\ UNCHANGED pageVars
    /\ calls[c].op = "upsertDailySpending" /\ calls[c].pc = "sent"
    /\ LET existing == FindDaily(daily, calls[c].args.planId,
                                 calls[c].args.date)
       IN  calls' = [calls EXCEPT
                       ![c].pc = IF existing = NoRow THEN "insert"
                                 ELSE "update",
                       ![c].existing = existing,
                       ![c].readClock = clock]
    /\ UNCHANGED storeVars

UpsertDailySpendingUpdate(c) ==
    /\ UNCHANGED pageVars
    /\ calls[c].op = "upsertDailySpending" /\ calls[c].pc = "update"
    /\ UNCHANGED <<plans, planSeq, dailySeq>>
    /\ LET spent == ToNumeric(calls[c].args.spent)
       IN  IF spent.ok
           THEN LET rows == UpdateDailyRows(daily, calls[c].existing.id,
                                            spent.cents, clock + 1)
                IN  /\ daily' = rows
                    /\ clock' = clock + 1
                    /\ calls' = [Finish(c, RowWithId(rows,
                                                     calls[c].existing.id),
                                        TRUE)
                                   EXCEPT
                                   ![c].isolated = (clock = calls[c].readClock),
                                   ![c].after = [plans |-> plans,
                                                 daily |-> rows]]
           ELSE /\ calls' = [Fail(c, "syntax") EXCEPT
                               ![c].isolated = (clock = calls[c].readClock),
                               ![c].after = [plans |-> plans, daily |-> daily]]
                /\ UNCHANGED <<daily, clock>>

UpsertDailySpendingInsert(c) ==
    /\ UNCHANGED pageVars
    /\ calls[c].op = "upsertDailySpending" /\ calls[c].pc = "insert"
    /\ UNCHANGED <<plans, planSeq>>
    /\ LET spent == ToNumeric(calls[c].args.spent)
           error == IF ~spent.ok THEN "syntax"
                    ELSE IF ~UniquePlanDate(daily, calls[c].args.planId,
                                            calls[c].args.date)
                    THEN "unique"
                    ELSE IF ~PlanIdReferences(plans, calls[c].args.planId)
                    THEN "foreign key"
                    ELSE ""
           row   == NewDailyRow(dailySeq, calls[c].args.planId,
                                calls[c].args.date, spent.cents, clock + 1)
       IN  IF error = ""
           THEN /\ daily' = daily \cup {row}
                /\ dailySeq' = dailySeq + 1
                /\ clock' = clock + 1
                /\ calls' = [Finish(c, row, TRUE) EXCEPT
                               ![c].isolated = (clock = calls[c].readClock),
                               ![c].after = [plans |-> plans,
                                             daily |-> daily \cup {row}]]
           ELSE /\ calls' = [Fail(c, error) EXCEPT
                               ![c].isolated = (clock = calls[c].readClock),
                               ![c].after = [plans |-> plans, daily |-> daily]]
                \* a serial value is drawn before the statement is rejected,
                \* except when the text is rejected before the row is built
                /\ dailySeq' = IF error = "syntax" THEN dailySeq
                               ELSE dailySeq + 1
                /\ UNCHANGED <<daily, clock>>

\* ------------------------------------------------------------------- page

\* Requests the page issues in one behaviour.
MaxRequests == 3

\* Days of the month whose spent field the user edits: 1..EditDays.
EditDays == 1

\* The months of the selector (getMonthOptions lists twelve around now).
MonthOptions == {<<2025, 0>>, <<2025, 1>>}

\* What the user types into a spent field: "5" or "7".
SpentTexts == {<<"5">>, <<"7">>}

\* What the user types into the total and saving fields: "90" or nothing.
AmountTexts == {<<"9", "0">>, <<>>}

\* What the server function hands back for a row (timestamps are not read).
PlanJson(row) ==
    [id |-> row.id, year |-> row.year, month |-> row.month,
     totalAmount |-> NumericText(row.totalAmount),
     desiredSaving |-> NumericText(row.desiredSaving)]

DailyJson(row) ==
    [id |-> row.id, planId |-> row.planId, date |-> row.date,
     spent |-> NumericText(row.spent)]

\* String(x) of a JS number with at most two decimals (q.d divides 100).
NumberText(q) ==
    LET cents == Abs(q.n) * (100 \div q.d)
        frac  == cents % 100
    IN  (IF q.n < 0 THEN <<"-">> ELSE <<>>)
        \o NatText(cents \div 100)
        \o (IF frac = 0 THEN <<>>
            ELSE IF frac % 10 = 0 THEN <<".", Digits[(frac \div 10) + 1]>>
            ELSE <<".", Digits[(frac \div 10) + 1], Digits[(frac % 10) + 1]>>)

\* const plan = planQuery.data
PlanOf(cache, month) ==
    IF month \in DOMAIN cache THEN cache[month] ELSE NoRow

\* dailyQuery.data, {} when undefined or the query is disabled
EntriesOf(cache, plan) ==
    IF plan # NoRow /\ plan.id \in DOMAIN cache THEN cache[plan.id] ELSE {}

\* totalInput || (plan ? String(plan.totalAmount) : '0')
DisplayTotalOf(input, plan) ==
    OrText(input, IF plan # NoRow THEN plan.totalAmount ELSE <<"0">>)

\* savingInput || (plan ? String(plan.desiredSaving) : '0')
DisplaySavingOf(input, plan) ==
    OrText(input, IF plan # NoRow THEN plan.desiredSaving ELSE <<"0">>)

\* spendingData of a render with these state and cache values.
Render(month, total, saving, inputs, pCache, dCache, now) ==
    LET plan == PlanOf(pCache, month)
    IN  ComputeSpendingData(month[1], month[2], DisplayTotalOf(total, plan),
                            DisplaySavingOf(saving, plan),
                            EntriesOf(dCache, plan), inputs, now)

Plan == PlanOf(planCache, selectedMonth)

DisplayTotal == DisplayTotalOf(totalInput, Plan)

DisplaySaving == DisplaySavingOf(savingInput, Plan)

\* spendingData: useMemo recomputes it whenever a dependency has changed, so
\* it is this function of the state at every render.
SpendingData ==
    Render(selectedMonth, totalInput, savingInput, spentInputs, planCache,
           dailyCache, today)

\* What the spent field of day n reads of spendingData.days[n - 1]: its key
\* and its spent.
DayRow(n) ==
    LET dateKey == FormatDateKey(selectedMonth[1], selectedMonth[2], n)
    IN  [dateKey |-> dateKey,
         spent |-> SpentOn(SpentMap(EntriesOf(dailyCache, Plan), spentInputs),
                           dateKey)]

\* value={displayTotal === '0' ? '' : displayTotal}
ShownAmount(display) == IF display = <<"0">> THEN <<>> ELSE display

\* The value attribute of the spent field of `day` (an element of
\* spendingData.days).
ShownSpent(day) ==
    IF day.dateKey \in DOMAIN spentInputs THEN spentInputs[day.dateKey]
    ELSE IF day.spent = Zero THEN <<>>
    ELSE NumberText(day.spent)

Put(f, k, v) == [x \in DOMAIN f \cup {k} |-> IF x = k THEN v ELSE f[x]]

Unsettled(c) == calls[c].outcome = ""

\* ---- queries

\* planQuery fetches (mount, a new key, a retry, an invalidation, a refocus):
\* one fetch per key at a time.
PlanQueryFetch ==
    /\ Len(calls) < MaxRequests
    /\ ~\E c \in CallIds : /\ calls[c].origin = "planQuery"
                           /\ calls[c].view = selectedMonth
                           /\ Unsettled(c)
    /\ calls' = Append(calls,
                       NewCall("getOrCreatePlan",
                               [NoArgs EXCEPT !.year = selectedMonth[1],
                                              !.month = selectedMonth[2]],
                               "planQuery", selectedMonth))
    /\ UNCHANGED storeVars
    /\ UNCHANGED pageVars

\* The fetch resolves: its data goes under the key it was issued for.
PlanQueryResolve(c) ==
    /\ calls[c].origin = "planQuery" /\ Unsettled(c)
    /\ calls[c].pc = "done"
    /\ calls' = [calls EXCEPT ![c].outcome = "success"]
    /\ planCache' = Put(planCache, calls[c].view, PlanJson(calls[c].ret))
    /\ UNCHANGED storeVars
    /\ UNCHANGED <<selectedMonth, totalInput, savingInput, spentInputs,
                   dailyCache, today>>

\* The fetch rejects: the query keeps the data it had.
PlanQueryReject(c) ==
    /\ calls[c].origin = "planQuery" /\ Unsettled(c)
    /\ calls[c].pc = "failed"
    /\ calls' = [calls EXCEPT ![c].outcome = "error"]
    /\ UNCHANGED storeVars
    /\ UNCHANGED pageVars

\* dailyQuery fetches for the plan on screen (enabled: !!plan?.id): one fetch
\* per key at a time.
DailyQueryFetch ==
    /\ Plan # NoRow
    /\ Len(calls) < MaxRequests
    /\ ~\E c \in CallIds : /\ calls[c].origin = "dailyQuery"
                           /\ calls[c].args.planId = Plan.id
                           /\ Unsettled(c)
    /\ calls' = Append(calls,
                       NewCall("getDailySpending",
                               [NoArgs EXCEPT !.planId = Plan.id],
                               "dailyQuery", selectedMonth))
    /\ UNCHANGED storeVars
    /\ UNCHANGED pageVars

\* The fetch resolves: its data goes under the key it was issued for.
DailyQueryResolve(c) ==
    /\ calls[c].origin = "dailyQuery" /\ Unsettled(c)
    /\ calls[c].pc = "done"
    /\ calls' = [calls EXCEPT ![c].outcome = "success"]
    /\ dailyCache' = Put(dailyCache, calls[c].args.planId,
                         {DailyJson(r) : r \in calls[c].rows})
    /\ UNCHANGED storeVars
    /\ UNCHANGED <<selectedMonth, totalInput, savingInput, spentInputs,
                   planCache, today>>

\* The fetch rejects: the query keeps the data it had.
DailyQueryReject(c) ==
    /\ calls[c].origin = "dailyQuery" /\ Unsettled(c)
    /\ calls[c].pc = "failed"
    /\ calls' = [calls EXCEPT ![c].outcome = "error"]
    /\ UNCHANGED storeVars
    /\ UNCHANGED pageVars

\* ---- the month selector and the two amount fields

\* onValueChange of the month selector
SetSelectedMonth(value) ==
    /\ value # selectedMonth
    /\ selectedMonth' = value
    /\ totalInput' = <<>>
    /\ savingInput' = <<>>
    /\ spentInputs' = <<>>
    /\ UNCHANGED storeVars
    /\ UNCHANGED <<calls, planCache, dailyCache, today>>

\* onChange of the total field
SetTotalInput(value) ==
    /\ value # totalInput
    /\ totalInput' = value
    /\ UNCHANGED storeVars
    /\ UNCHANGED <<calls, selectedMonth, savingInput, spentInputs, planCache,
                   dailyCache, today>>

\* onChange of the saving field
SetSavingInput(value) ==
    /\ value # savingInput
    /\ savingInput' = value
    /\ UNCHANGED storeVars
    /\ UNCHANGED <<calls, selectedMonth, totalInput, spentInputs, planCache,
                   dailyCache, today>>

\* handleUpdateSettings(total, saving): mutate when a plan is loaded
HandleUpdateSettings(total, saving) ==
    /\ Plan # NoRow
    /\ Len(calls) < MaxRequests
    /\ calls' = Append(calls,
                       NewCall("updatePlanSettings",
                               [NoArgs EXCEPT
                                  !.planId = Plan.id,
                                  !.totalAmount = OrText(total, <<"0">>),
                                  !.desiredSaving = OrText(saving, <<"0">>)],
                               "updatePlanMutation", selectedMonth))
    /\ UNCHANGED storeVars
    /\ UNCHANGED pageVars

\* onBlur of the total field
TotalBlur ==
    HandleUpdateSettings(OrText(ShownAmount(DisplayTotal), <<"0">>),
                         DisplaySaving)

\* onBlur of the saving field
SavingBlur ==
    HandleUpdateSettings(DisplayTotal,
                         OrText(ShownAmount(DisplaySaving), <<"0">>))

\* ---- the spent fields

\* handleSpentInputChange(dateKey, value)
HandleSpentInputChange(dateKey, value) ==
    /\ ~(dateKey \in DOMAIN spentInputs /\ spentInputs[dateKey] = value)
    /\ spentInputs' = Put(spentInputs, dateKey, value)
    /\ UNCHANGED storeVars
    /\ UNCHANGED <<calls, selectedMonth, totalInput, savingInput, planCache,
                   dailyCache, today>>

\* handleSpentBlur(dateKey, value), value being what the field shows
HandleSpentBlur(day) ==
    /\ Plan # NoRow
    /\ Len(calls) < MaxRequests
    /\ calls' = Append(calls,
                       NewCall("upsertDailySpending",
                               [NoArgs EXCEPT
                                  !.planId = Plan.id,
                                  !.date = day.dateKey,
                                  !.spent = IF ShownSpent(day) = <<>>
                                            THEN <<"0">>
                                            ELSE ShownSpent(day)],
                               "updateDailyMutation", selectedMonth))
    /\ UNCHANGED storeVars
    /\ UNCHANGED pageVars

\* ---- the mutations' outcomes

IsMutation(c) ==
    calls[c].origin \in {"updatePlanMutation", "updateDailyMutation"}

\* onSuccess: invalidateQueries of the plan or of the daily entries, which
\* refetches them (PlanQueryFetch, DailyQueryFn); no local state is set.
MutationResolve(c) ==
    /\ IsMutation(c) /\ Unsettled(c)
    /\ calls[c].pc = "done"
    /\ calls' = [calls EXCEPT ![c].outcome = "success"]
    /\ UNCHANGED storeVars
    /\ UNCHANGED pageVars

\* A variant that gives the fields up when a save fails.
MutationRejectResetsInputs(c) ==
    /\ IsMutation(c) /\ Unsettled(c)
    /\ calls[c].pc = "failed"
    /\ calls' = [calls EXCEPT ![c].outcome = "error"]
    /\ totalInput' = <<>>
    /\ savingInput' = <<>>
    /\ spentInputs' = <<>>
    /\ UNCHANGED storeVars
    /\ UNCHANGED <<selectedMonth, planCache, dailyCache, today>>

\* The mutation fails: useMutation has no onError, nothing else happens.
MutationReject(c) ==
    /\ IsMutation(c) /\ Unsettled(c)
    /\ calls[c].pc = "failed"
    /\ calls' = [calls EXCEPT ![c].outcome = "error"]
    /\ UNCHANGED storeVars
    /\ UNCHANGED pageVars

\* The request does not reach the server: the fetch behind the server
\* function rejects.
RequestLost(c) ==
    /\ calls[c].origin # "api" /\ Unsettled(c)
    /\ calls[c].pc = "sent"
    /\ calls' = Fail(c, "network")
    /\ UNCHANGED storeVars
    /\ UNCHANGED pageVars

\* ---- calls with arbitrary arguments (any client of the server functions)

\* (year, 0-based month) arguments.
MonthArgs == {<<2025, 0>>, <<2025, 1>>}

PlanIdArgs == {1, 2}

\* "2025-01-01": inside the plan of MonthArgs' January, outside February's.
DateArgs == {<<2025, 1, 1>>}

\* "5" and "0.005"
SpentArgs == {<<"5">>, <<"0", ".", "0", "0", "5">>}

\* "100"
AmountArgs == {<<"1", "0", "0">>}

CallGetOrCreatePlan ==
    \E ym \in MonthArgs :
        calls' = Append(calls, NewCall("getOrCreatePlan",
                     [NoArgs EXCEPT !.year = ym[1], !.month = ym[2]],
                     "api", <<0, 0>>))

CallUpdatePlanSettings ==
    \E planId \in PlanIdArgs, total \in AmountArgs, saving \in AmountArgs :
        calls' = Append(calls, NewCall("updatePlanSettings",
                     [NoArgs EXCEPT !.planId = planId, !.totalAmount = total,
                                    !.desiredSaving = saving],
                     "api", <<0, 0>>))

CallUpsertDailySpending ==
    \E planId \in PlanIdArgs, date \in DateArgs, spent \in SpentArgs :
        calls' = Append(calls, NewCall("upsertDailySpending",
                     [NoArgs EXCEPT !.planId = planId, !.date = date,
                                    !.spent = spent],
                     "api", <<0, 0>>))

IssueCall ==
    /\ Len(calls) < MaxCalls
    /\ \/ CallGetOrCreatePlan
       \/ CallUpdatePlanSettings
       \/ CallUpsertDailySpending
    /\ UNCHANGED storeVars
    /\ UNCHANGED pageVars

StoreInit ==
    /\ plans = {}
    /\ daily = {}
    /\ planSeq = 1
    /\ dailySeq = 1
    /\ clock = 0
    /\ calls = <<>>

\* The page as mounted on `now`: the current month, no input, no data.
PageInit(now) ==
    /\ today = now
    /\ selectedMonth = <<now[1], now[2]>>
    /\ totalInput = <<>>
    /\ savingInput = <<>>
    /\ spentInputs = <<>>
    /\ planCache = <<>>
    /\ dailyCache = <<>>

vars ==
    <<plans, daily, planSeq, dailySeq, clock, calls, selectedMonth,
      totalInput, savingInput, spentInputs, planCache, dailyCache, today>>

\* ------------------------------------------------- the store under any calls
\* getOrCreatePlan, updatePlanSettings and upsertDailySpending, called with
\* any arguments, their steps interleaved in any order.

\* 2 January 2025
Now == <<2025, 0, 2>>

Init == StoreInit /\ PageInit(Now)

Next ==
    \/ IssueCall
    \/ \E c \in CallIds : GetOrCreatePlanFind(c)
    \/ \E c \in CallIds : GetOrCreatePlanInsert(c)
    \/ \E c \in CallIds : UpdatePlanSettingsUpdate(c)
    \/ \E c \in CallIds : UpsertDailySpendingFind(c)
    \/ \E c \in CallIds : UpsertDailySpendingUpdate(c)
    \/ \E c \in CallIds : UpsertDailySpendingInsert(c)

Spec == Init /\ [][Next]_vars

\* ------------------------------------------------- the page and its server

PageNext ==
    \/ PlanQueryFetch
    \/ \E c \in CallIds : PlanQueryResolve(c)
    \/ \E c \in CallIds : PlanQueryReject(c)
    \/ DailyQueryFetch
    \/ \E c \in CallIds : DailyQueryResolve(c)
    \/ \E c \in CallIds : DailyQueryReject(c)
    \/ \E value \in MonthOptions : SetSelectedMonth(value)
    \/ \E value \in AmountTexts : SetTotalInput(value)
    \/ \E value \in AmountTexts : SetSavingInput(value)
    \/ TotalBlur
    \/ SavingBlur
    \/ \E n \in 1..EditDays, value \in SpentTexts :
          HandleSpentInputChange(DayRow(n).dateKey, value)
    \/ \E n \in 1..EditDays : HandleSpentBlur(DayRow(n))
    \/ \E c \in CallIds : MutationResolve(c)
    \/ \E c \in CallIds : MutationReject(c)
    \/ \E c \in CallIds : RequestLost(c)
    \/ \E c \in CallIds : GetOrCreatePlanFind(c)
    \/ \E c \in CallIds : GetOrCreatePlanInsert(c)
    \/ \E c \in CallIds : UpdatePlanSettingsUpdate(c)
    \/ \E c \in CallIds : GetDailySpendingSelect(c)
    \/ \E c \in CallIds : UpsertDailySpendingFind(c)
    \/ \E c \in CallIds : UpsertDailySpendingUpdate(c)
    \/ \E c \in CallIds : UpsertDailySpendingInsert(c)

PageSpec == Init /\ [][PageNext]_vars

\* ------------------------------------------- the page over a loaded month
\* The page showing a month whose plan and entries are loaded, on some day
\* before, within or after that month, while the user types into the fields:
\* every spendingData the memo computes for these inputs.

\* Days of the month that can have a stored entry or a typed value: 1..SpendDays.
SpendDays == 2

\* February 2025 (28 days) and April 2025 (30 days).
ViewedMonths == {<<2025, 1>>, <<2025, 3>>}

\* 31 January, 3 February and 2 April 2025: before both months; within
\* February and before April; after February and within April.
Todays == {<<2025, 0, 31>>, <<2025, 1, 3>>, <<2025, 3, 2>>}

\* (totalAmount, desiredSaving) of the stored plan, in cents.
StoredAmounts == {<<300000, 0>>, <<100000, 120000>>}

\* spent of a stored entry, in cents: 50.00
StoredSpent == {5000}

\* What the user leaves in a spent field: "-30", or nothing after clearing it.
TypedSpent == {<<"-", "3", "0">>, <<>>}

\* What the user types into the total field: "1000".
TypedTotal == {<<"1", "0", "0", "0">>}

\* What the user types into the saving field: "1200".
TypedSaving == {<<"1", "2", "0", "0">>}

\* The rows of daily_spending of plan 1 on the days in `spentDays`, numbered
\* in the order of their days.
StoredEntries(month, spentDays, cents) ==
    {NewDailyRow(Cardinality({e \in spentDays : e <= d}), 1,
                 FormatDateKey(month[1], month[2], d), cents, 1)
     : d \in spentDays}

EngineInit ==
    \E month \in ViewedMonths, now \in Todays, amounts \in StoredAmounts,
       spentDays \in SUBSET (1..SpendDays), cents \in StoredSpent :
        /\ plans = {[NewPlanRow(1, month[1], month[2], 0) EXCEPT
                       !.totalAmount = amounts[1],
                       !.desiredSaving = amounts[2],
                       !.updatedAt = 1]}
        /\ daily = StoredEntries(month, spentDays, cents)
        /\ planSeq = 2
        /\ dailySeq = Cardinality(spentDays) + 1
        /\ clock = 1
        /\ calls = <<>>
        /\ today = now
        /\ selectedMonth = month
        /\ totalInput = <<>>
        /\ savingInput = <<>>
        /\ spentInputs = <<>>
        /\ planCache = Put(<<>>, month, PlanJson(CHOOSE r \in plans : TRUE))
        /\ dailyCache = Put(<<>>, 1, {DailyJson(r) : r \in daily})

EngineNext ==
    \/ \E value \in TypedTotal \cup {<<>>} : SetTotalInput(value)
    \/ \E value \in TypedSaving \cup {<<>>} : SetSavingInput(value)
    \/ \E n \in 1..SpendDays, value \in TypedSpent :
          HandleSpentInputChange(DayRow(n).dateKey, value)

EngineSpec == EngineInit /\ [][EngineNext]_vars

\* ----------------------------------------- properties of spendingData

\* The days of the viewed month that lie strictly before today, by the
\* calendar.
PastDayNumbers ==
    {d \in 1..GetDaysInMonth(selectedMonth[1], selectedMonth[2]) :
        \/ selectedMonth[1] < today[1]
        \/ selectedMonth[1] = today[1] /\ selectedMonth[2] < today[2]
        \/ selectedMonth[1] = today[1] /\ selectedMonth[2] = today[2]
           /\ d < today[3]}

\* The sum of (baseDailyAllowance - spent) over the past days among 1..d.
RECURSIVE SumOverPast(_, _)
SumOverPast(sd, d) ==
    IF d = 0 THEN Zero
    ELSE RAdd(SumOverPast(sd, d - 1),
              IF d \in PastDayNumbers
              THEN RSub(sd.baseDailyAllowance, sd.days[d].spent)
              ELSE Zero)

\* (base * k + r) / k
Redistributed(base, k, r) ==
    RDiv(RAdd(RMul(base, Int2Rat(k)), r), Int2Rat(k))

AllowedFormula(sd) ==
    LET n == Len(sd.days)
        r == SumOverPast(sd, n)
    IN  /\ sd.rollover = r
        /\ \A d \in (1..n) \ PastDayNumbers :
              sd.days[d].allowedSpending
                 = Redistributed(sd.baseDailyAllowance, n - d + 1, r)

\* C1: every day d that is today or later has allowedSpending =
\* (baseDailyAllowance * (daysCount - d + 1) + R) / (daysCount - d + 1), R
\* being the rollover of all past days, the same for every such day and equal
\* to the rollover returned.
C1_AllowedOfTodayOrLater == \A sd \in {SpendingData} : AllowedFormula(sd)

\* 2 April of a 30-day month with 3000 to spend, 50 spent on day 1 and -30
\* typed for day 2: day 2 is allowed 2950/29, and day 30 is allowed 150.
C1_Witness ==
    \E sd \in {SpendingData} :
        /\ Len(sd.days) = 30 /\ today = <<2025, 3, 2>>
        /\ sd.baseDailyAllowance = Int2Rat(100)
        /\ sd.days[1].spent = Int2Rat(50)
        /\ sd.days[2].spent = Int2Rat(0 - 30)
        /\ sd.rollover = Int2Rat(50)
        /\ sd.days[2].allowedSpending = Rat(2950, 29)
        /\ sd.days[30].allowedSpending = Int2Rat(150)

RolloverFormula(sd) ==
    LET n    == Len(sd.days)
        past == PastDayNumbers
    IN  /\ sd.rollover = SumOverPast(sd, n)
        /\ (\A d \in past : sd.days[d].spent = Zero)
           => sd.rollover = RMul(Int2Rat(Cardinality(past)),
                                 sd.baseDailyAllowance)
        /\ past = {} => sd.rollover = Zero

\* C2: the rollover returned is the sum of (baseDailyAllowance - spent) over
\* exactly the days strictly before today; with nothing spent on them it is
\* their number times baseDailyAllowance, and with no such day it is 0.
C2_RolloverIsSumOverPastDays == \A sd \in {SpendingData} : RolloverFormula(sd)

\* 3 February with 3000 to spend over 28 days, -30 typed for day 1 and 50
\* stored for day 2: the rollover is 2 * 3000/28 - 20.
C2_Witness ==
    \E sd \in {SpendingData} :
        /\ PastDayNumbers = {1, 2}
        /\ sd.days[1].spent = Int2Rat(0 - 30)
        /\ sd.days[2].spent = Int2Rat(50)
        /\ sd.baseDailyAllowance = Rat(3000, 28)
        /\ sd.rollover = RSub(Rat(6000, 28), Int2Rat(20))

PastAllowedFormula(sd) ==
    /\ sd.baseDailyAllowance
          = RDiv(sd.availableMoney, Int2Rat(Len(sd.days)))
    /\ \A d \in PastDayNumbers :
          sd.days[d].allowedSpending = sd.baseDailyAllowance

\* C3: every day strictly before today has allowedSpending =
\* baseDailyAllowance = availableMoney / daysCount, whatever was spent.
C3_PastDayAllowedIsBase == \A sd \in {SpendingData} : PastAllowedFormula(sd)

\* Days 1 and 2 are past with -30 and 50 spent and the same allowance,
\* which day 3 does not have.
C3_Witness ==
    \E sd \in {SpendingData} :
        /\ PastDayNumbers = {1, 2}
        /\ sd.days[1].spent = Int2Rat(0 - 30)
        /\ sd.days[2].spent = Int2Rat(50)
        /\ sd.days[1].allowedSpending = sd.baseDailyAllowance
        /\ sd.days[2].allowedSpending = sd.baseDailyAllowance
        /\ sd.days[3].allowedSpending # sd.baseDailyAllowance

NegativeFormula(sd) ==
    RLess(sd.totalAmount, sd.desiredSaving)
    => /\ sd.availableMoney = RSub(sd.totalAmount, sd.desiredSaving)
       /\ RLess(sd.availableMoney, Zero)
       /\ RLess(sd.baseDailyAllowance, Zero)
       /\ ~RLess(Zero, sd.rollover)
          => \A d \in (1..Len(sd.days)) \ PastDayNumbers :
                 RLess(sd.days[d].allowedSpending, Zero)

\* C8: with totalAmount < desiredSaving the memo returns availableMoney =
\* totalAmount - desiredSaving < 0 and baseDailyAllowance < 0, and when the
\* rollover is not positive every day that is today or later has a negative
\* allowedSpending.
C8_NegativeAvailableMoney == \A sd \in {SpendingData} : NegativeFormula(sd)

\* 1000 typed against a typed saving of 1200 on 3 February: -200 to spend,
\* a negative rollover of two past days, and every later day allowed less
\* than 0.
C8_Witness ==
    \E sd \in {SpendingData} :
        /\ totalInput # <<>> /\ savingInput # <<>>
        /\ sd.totalAmount = Int2Rat(1000)
        /\ sd.desiredSaving = Int2Rat(1200)
        /\ sd.availableMoney = Int2Rat(0 - 200)
        /\ PastDayNumbers = {1, 2}
        /\ RLess(sd.rollover, Zero)
        /\ RLess(sd.days[3].allowedSpending, Zero)
        /\ RLess(sd.days[28].allowedSpending, Zero)

\* The number a text counts as: 0 when it is empty or reads as no number.
CountsAs(text) ==
    IF text = <<>> \/ IsNaN(ParseFloat(text)) THEN Zero ELSE ParseFloat(text)

MergedSpentFormula(sd) ==
    \A d \in 1..Len(sd.days) :
        LET key    == <<selectedMonth[1], selectedMonth[2] + 1, d>>
            stored == {e \in EntriesOf(dailyCache, Plan) : e.date = key}
        IN  /\ sd.days[d].dateKey = key
            /\ sd.days[d].spent
                  = IF key \in DOMAIN spentInputs
                    THEN CountsAs(spentInputs[key])
                    ELSE IF stored # {}
                    THEN CountsAs((CHOOSE e \in stored : TRUE).spent)
                    ELSE Zero

\* C11: for each date of the viewed month the spent the memo uses is the
\* local edit of that date when there is one (an empty or unreadable edit
\* counting as 0), otherwise the spent of the fetched entry of that date,
\* otherwise 0.
C11_SpentIsEditThenEntryThenZero ==
    \A sd \in {SpendingData} : MergedSpentFormula(sd)

\* Days 1 and 2 both have a fetched entry of 50; the field of day 1 was
\* cleared, so day 1 counts 0 and day 2 counts 50; day 3 has neither and
\* counts 0.
C11_Witness ==
    \E sd \in {SpendingData} :
        /\ {e.date : e \in EntriesOf(dailyCache, Plan)}
              = {sd.days[1].dateKey, sd.days[2].dateKey}
        /\ DOMAIN spentInputs = {sd.days[1].dateKey}
        /\ spentInputs[sd.days[1].dateKey] = <<>>
        /\ sd.days[1].spent = Zero
        /\ sd.days[2].spent = Int2Rat(50)
        /\ sd.days[3].spent = Zero

\* The outputs a and b differ in nothing but the spent of day d.
SameButSpentOf(before, after, d) ==
    \A a \in {before}, b \in {after} :
    /\ b.totalAmount = a.totalAmount
    /\ b.desiredSaving = a.desiredSaving
    /\ b.availableMoney = a.availableMoney
    /\ b.baseDailyAllowance = a.baseDailyAllowance
    /\ b.rollover = a.rollover
    /\ Len(b.days) = Len(a.days)
    /\ \A i \in 1..Len(a.days) :
          /\ b.days[i].allowedSpending = a.days[i].allowedSpending
          /\ [b.days[i] EXCEPT !.spent = Zero]
                = [a.days[i] EXCEPT !.spent = Zero]
          /\ i # d => b.days[i].spent = a.days[i].spent

\* The step changes the local edit of day d of the viewed month and no other
\* input of the memo.
ChangesSpentOf(d) ==
    LET key == <<selectedMonth[1], selectedMonth[2] + 1, d>>
    IN  /\ spentInputs' # spentInputs
        /\ DOMAIN spentInputs' = DOMAIN spentInputs \cup {key}
        /\ \A k \in DOMAIN spentInputs : k # key => spentInputs'[k] = spentInputs[k]
        /\ UNCHANGED <<selectedMonth, totalInput, savingInput, planCache, dailyCache, today>>

C12_Step ==
    \A d \in 1..GetDaysInMonth(selectedMonth[1], selectedMonth[2]) :
        (d \notin PastDayNumbers /\ ChangesSpentOf(d))
        => \A inputs \in {spentInputs'} :
              SameButSpentOf(SpendingData,
                             Render(selectedMonth, totalInput, savingInput,
                                    inputs, planCache, dailyCache, today),
                             d)

\* C12: a change of the spent of a day that is today or later, everything
\* else as it was, leaves availableMoney, baseDailyAllowance, rollover and
\* every day's allowedSpending as they were; the output differs in that
\* day's spent only.
C12_LaterSpentChangesNothingElse == [][C12_Step]_vars

\* 31 January, February viewed: -30 was typed for day 1 and 50 is stored for
\* day 2, both days to come; the rollover is 0 and every day is allowed
\* 3000/28.
C12_Witness ==
    \E sd \in {SpendingData} :
        /\ today = <<2025, 0, 31>> /\ selectedMonth = <<2025, 1>>
        /\ sd.days[1].dateKey \in DOMAIN spentInputs
        /\ sd.days[1].spent = Int2Rat(0 - 30)
        /\ sd.days[2].spent = Int2Rat(50)
        /\ sd.rollover = Zero
        /\ \A i \in 1..28 : sd.days[i].allowedSpending = Rat(3000, 28)

\* The sum of spent over the days 1..d of the output.
RECURSIVE SpentUpTo(_, _)
SpentUpTo(sd, d) ==
    IF d = 0 THEN Zero ELSE RAdd(SpentUpTo(sd, d - 1), sd.days[d].spent)

\* allowedSpending(d) * (daysCount - d + 1)
AllowedTimesDaysLeft(sd, d) ==
    RMul(sd.days[d].allowedSpending, Int2Rat(Len(sd.days) - d + 1))

\* availableMoney - (sum of spent over days 1..d-1)
MoneyNotSpentBefore(sd, d) ==
    RSub(sd.availableMoney, SpentUpTo(sd, d - 1))

\* today is day t of the viewed month
TodayIs(t) ==
    today = <<selectedMonth[1], selectedMonth[2], t>>

ConservationFormula(sd) ==
    \A t \in 1..Len(sd.days) :
        TodayIs(t)
        => /\ AllowedTimesDaysLeft(sd, t) = MoneyNotSpentBefore(sd, t)
           /\ \A f \in (t + 1)..Len(sd.days) :
                 (AllowedTimesDaysLeft(sd, f) = MoneyNotSpentBefore(sd, f))
                 <=> (RSub(SpentUpTo(sd, f - 1), SpentUpTo(sd, t - 1))
                        = RMul(sd.baseDailyAllowance, Int2Rat(f - t)))

\* C13: when today is day t of the viewed month, allowedSpending(t) *
\* (daysCount - t + 1) = availableMoney - (spent over days 1..t-1). For a
\* later day f the product equals availableMoney - (spent over days 1..f-1)
\* only when what was spent on days t..f-1 is (f - t) * baseDailyAllowance,
\* so not in general.
C13_TodayConservesBudget ==
    \A sd \in {SpendingData} : ConservationFormula(sd)

\* 2 April with 3000 to spend, 50 spent on day 1 and -30 typed for today:
\* today's allowance times 29 is 2950 = 3000 - 50, while day 3's allowance
\* times 28 is 2850, and 2980 was not spent before day 3.
C13_Witness ==
    \E sd \in {SpendingData} :
        /\ TodayIs(2) /\ Len(sd.days) = 30
        /\ sd.availableMoney = Int2Rat(3000)
        /\ sd.days[1].spent = Int2Rat(50)
        /\ sd.days[2].dateKey \in DOMAIN spentInputs
        /\ sd.days[2].spent = Int2Rat(0 - 30)
        /\ AllowedTimesDaysLeft(sd, 2) = Int2Rat(2950)
        /\ MoneyNotSpentBefore(sd, 2) = Int2Rat(2950)
        /\ AllowedTimesDaysLeft(sd, 3) = Int2Rat(2850)
        /\ MoneyNotSpentBefore(sd, 3) = Int2Rat(2980)

\* ---------------------------------------------- properties of the store

Completed(c) == calls[c].pc \in {"done", "failed"}

\* Two calls of one function on one key: (year, month) or (planId, date).
SameKey(a, b) ==
    /\ a # b
    /\ calls[a].op = calls[b].op
    /\ \/ /\ calls[a].op = "getOrCreatePlan"
          /\ calls[a].args.year = calls[b].args.year
          /\ calls[a].args.month = calls[b].args.month
       \/ /\ calls[a].op = "upsertDailySpending"
          /\ calls[a].args.planId = calls[b].args.planId
          /\ calls[a].args.date = calls[b].args.date

\* C4: in every reachable state, whatever calls ran and however their steps
\* interleaved, no two plan rows share (year, month) and no two daily rows
\* share (planId, date).
C4_OneRowPerKey ==
    /\ \A p, q \in plans : (p.year = q.year /\ p.month = q.month) => p = q
    /\ \A r, q \in daily : (r.planId = q.planId /\ r.date = q.date) => r = q

\* Two overlapping upserts of one (planId, date) have both read no row; one
\* has inserted it and the other's insert was rejected.
C4_Witness ==
    \E a, b \in CallIds :
        /\ SameKey(a, b) /\ calls[a].op = "upsertDailySpending"
        /\ calls[a].pc = "done" /\ calls[a].existing = NoRow
        /\ calls[b].pc = "failed" /\ calls[b].error = "unique"
        /\ calls[b].readClock < calls[a].writeClock
        /\ \E r \in daily : r = calls[a].ret

\* C5: of two calls on one key, the one whose write comes second returns or
\* updates the row the first one left: it ends in no uniqueness failure and
\* its row is the first one's row.
C5_SecondWriteReturnsOrUpdates ==
    \A a, b \in CallIds :
        ( /\ SameKey(a, b)
          /\ calls[a].pc = "done" /\ Completed(b)
          /\ calls[a].writeClock <= calls[b].writeClock )
        => /\ calls[b].error # "unique"
           /\ calls[b].pc = "done" => calls[b].ret.id = calls[a].ret.id

\* C9: every daily row's date lies in the (year, month) of the plan its
\* planId refers to (the date key carries the 1-based month).
C9_DateWithinPlanMonth ==
    \A r \in daily : \A p \in plans :
        p.id = r.planId => /\ r.date[1] = p.year
                           /\ r.date[2] = p.month + 1

\* Two upsertDailySpending calls with the same arguments, one after the
\* other: each ran with no write of another call between its read and its
\* write, and the second read the state the first left.
InSequence(a, b) ==
    /\ a # b
    /\ calls[a].op = "upsertDailySpending" /\ calls[b].op = "upsertDailySpending"
    /\ calls[a].args = calls[b].args
    /\ Completed(a) /\ Completed(b)
    /\ calls[a].isolated /\ calls[b].isolated
    /\ calls[b].readClock = calls[a].writeClock

RowsOfKey(rows, args) ==
    {r \in rows : r.planId = args.planId /\ r.date = args.date}

\* The stores s and t differ in nothing but the updatedAt of the row of
\* (args.planId, args.date).
DiffersOnlyInUpdatedAt(s, t, args) ==
    /\ t.plans = s.plans
    /\ t.daily \ RowsOfKey(t.daily, args) = s.daily \ RowsOfKey(s.daily, args)
    /\ {[r EXCEPT !.updatedAt = 0] : r \in RowsOfKey(t.daily, args)}
         = {[r EXCEPT !.updatedAt = 0] : r \in RowsOfKey(s.daily, args)}

\* cents/100 is the decimal v rounded to two places, v being the number the
\* text reads as.
IsRoundedToCents(cents, v) ==
    LET q == ParseFloat(v)
    IN  /\ ~IsNaN(q)
        /\ 2 * Abs(100 * q.n - cents * q.d) <= q.d

\* C6 as stated: after upsertDailySpending(planId, date, v) twice in sequence
\* there is exactly one row of (planId, date), its spent is v, and the second
\* call changed nothing but that row's updatedAt.
C6_TwiceLeavesOneRowWithV ==
    \A a, b \in CallIds :
        InSequence(a, b)
        => /\ Cardinality(RowsOfKey(calls[b].after.daily, calls[b].args)) = 1
           /\ \A r \in RowsOfKey(calls[b].after.daily, calls[b].args) :
                  Rat(r.spent, 100) = ParseFloat(calls[b].args.spent)
           /\ DiffersOnlyInUpdatedAt(calls[a].after, calls[b].after,
                                     calls[b].args)

\* C6, amended: when planId is the id of a stored plan and v is a decimal
\* number, both calls succeed, there is exactly one row of (planId, date), its
\* spent is v rounded to two decimal places, and the second call changed
\* nothing but that row's updatedAt.
C6_TwiceLeavesOneRowWithRoundedV ==
    \A a, b \in CallIds :
        ( /\ InSequence(a, b)
          /\ PlanIdReferences(calls[a].after.plans, calls[a].args.planId)
          /\ ToNumeric(calls[a].args.spent).ok )
        => /\ calls[a].pc = "done" /\ calls[b].pc = "done"
           /\ Cardinality(RowsOfKey(calls[b].after.daily, calls[b].args)) = 1
           /\ \A r \in RowsOfKey(calls[b].after.daily, calls[b].args) :
                  /\ IsRoundedToCents(r.spent, calls[b].args.spent)
                  /\ r = calls[b].ret
           /\ DiffersOnlyInUpdatedAt(calls[a].after, calls[b].after,
                                     calls[b].args)

\* The first call inserted the row of "0.005" as 0.01, the second updated it.
C6_Witness ==
    \E a, b \in CallIds :
        /\ InSequence(a, b)
        /\ calls[a].pc = "done" /\ calls[a].existing = NoRow
        /\ calls[b].pc = "done" /\ calls[b].existing = calls[a].ret
        /\ calls[b].args.spent = <<"0", ".", "0", "0", "5">>
        /\ calls[b].ret.spent = 1
        /\ calls[b].ret.updatedAt > calls[a].ret.updatedAt
        /\ calls[b].ret \in daily

\* C7: getOrCreatePlan adds a plan row only when no row has its (year,
\* month), and the row it adds has totalAmount 0 and desiredSaving 0; when
\* its findFirst finds a row it returns that row; no step of it changes
\* any row there was.
C7_Step ==
    \A c \in CallIds :
        (calls[c].op = "getOrCreatePlan" /\ calls'[c].pc # calls[c].pc)
        => LET found == {r \in plans : /\ r.year = calls[c].args.year
                                       /\ r.month = calls[c].args.month}
           IN  /\ daily' = daily
               /\ plans \subseteq plans'
               /\ found # {} => plans' = plans
               /\ (found # {} /\ calls[c].pc = "sent")
                  => /\ calls'[c].pc = "done"
                     /\ calls'[c].ret \in found
               /\ \A row \in plans' \ plans :
                     /\ plans' = plans \cup {row}
                     /\ row.year = calls[c].args.year
                     /\ row.month = calls[c].args.month
                     /\ row.totalAmount = 0 /\ row.desiredSaving = 0
                     /\ calls'[c].pc = "done" /\ calls'[c].ret = row

C7_GetOrCreatePlanCreatesOnlyWhenAbsent == [][C7_Step]_vars

\* One call created the plan with 0 and 0, updatePlanSettings set it to 100
\* and 100, and a later call for the same month returned the row as set.
C7_Witness ==
    \E a, b \in CallIds :
        /\ SameKey(a, b) /\ calls[a].op = "getOrCreatePlan"
        /\ calls[a].pc = "done" /\ calls[a].existing = NoRow
        /\ calls[a].ret.totalAmount = 0 /\ calls[a].ret.desiredSaving = 0
        /\ calls[b].pc = "done" /\ calls[b].existing # NoRow
        /\ calls[b].ret.id = calls[a].ret.id
        /\ calls[b].ret.totalAmount = 10000
        /\ calls[b].ret \in plans

\* ------------------------------------------------ properties of the page

Edits == <<spentInputs, totalInput, savingInput>>

\* The step belongs to the save c: it issues it, runs a step of its server
\* function, loses its request, or settles it on the page.
IsStepOfSave(c) ==
    /\ calls'[c].origin \in {"updatePlanMutation", "updateDailyMutation"}
    /\ c \in DOMAIN calls => calls'[c] # calls[c]

C10_Step ==
    /\ \A c \in DOMAIN calls' : IsStepOfSave(c) => UNCHANGED Edits
    /\ \A c \in DOMAIN calls' :
          ( /\ IsStepOfSave(c)
            /\ calls'[c].outcome = "error"
            /\ calls'[c].view = selectedMonth' )
          => /\ PlanOf(planCache', selectedMonth') # NoRow
             /\ PlanOf(planCache', selectedMonth').id = calls'[c].args.planId

\* C10: no step of a save, its failing included, changes spentInputs,
\* totalInput or savingInput, and when a save has failed the page still
\* holds the plan, so that a blur of the same field calls mutate again.
C10_FailedSaveKeepsEdits == [][C10_Step]_vars

\* A save of a typed spent value has failed, the typed values are still in the
\* fields, and a later save of the same value has gone through.
C10_Witness ==
    \E c, d \in CallIds :
        /\ c < d
        /\ calls[c].origin = "updateDailyMutation"
        /\ calls[c].outcome = "error"
        /\ calls[d].origin = "updateDailyMutation"
        /\ calls[d].args = calls[c].args
        /\ calls[d].outcome = "success"
        /\ calls[c].view = selectedMonth
        /\ calls[c].args.date \in DOMAIN spentInputs
        /\ spentInputs[calls[c].args.date] = calls[c].args.spent
        /\ totalInput # <<>>
        /\ \E r \in daily : r = calls[d].ret

\* The saves c and d were issued in this order by blurs of the spent field of
\* one date with different values, both have succeeded, and the field still
\* holds the value of the second.
BlurredTwice(c, d) ==
    /\ c < d
    /\ calls[c].origin = "updateDailyMutation"
    /\ calls[d].origin = "updateDailyMutation"
    /\ calls[c].args.planId = calls[d].args.planId
    /\ calls[c].args.date = calls[d].args.date
    /\ calls[c].args.spent # calls[d].args.spent
    /\ calls[c].pc = "done" /\ calls[d].pc = "done"
    /\ calls[c].outcome = "success" /\ calls[d].outcome = "success"
    /\ calls[d].view = selectedMonth
    /\ calls[d].args.date \in DOMAIN spentInputs
    /\ spentInputs[calls[d].args.date] = calls[d].args.spent

\* C14: after blurs of v1 and then v2 on the spent field of one date, once
\* both requests have succeeded the stored spent of (planId, date) is v2,
\* the value the field shows, in whatever order the server ran them.
C14_SecondBlurIsPersisted ==
    \A c, d \in CallIds :
        BlurredTwice(c, d)
        => \E r \in daily :
              /\ r.planId = calls[d].args.planId
              /\ r.date = calls[d].args.date
              /\ Rat(r.spent, 100) = ParseFloat(calls[d].args.spent)

====
